---- MODULE Spec2Model ----
(***************************************************************************)
(* State-machine model of backend/server.py (AI-Powered FRA Atlas & DSS):  *)
(* the claim store, the request handlers of the claim, dashboard and       *)
(* report routes, and the bearer-token authentication in front of them.    *)
(*                                                                         *)
(* One action per request handler.  A handler runs to completion in one    *)
(* step and leaves its route, token, claim id and response in `last`.      *)
(* The status update, the upload, the dashboard statistics and the         *)
(* registration also exist split at their awaits, one coroutine of `tasks` *)
(* each, for the runs in which requests interleave.  Each specification    *)
(* explores the routes over its own set of requests.                       *)
(***************************************************************************)
EXTENDS Integers, Sequences, FiniteSets, TLC

VARIABLES
    users,   \* db.users: sequence of user documents, _id = position
    claims,  \* db.claims: sequence of claim documents, _id = position
    files,   \* /app/uploads: path -> stored bytes (NoFile when absent)
    clock,   \* the latest value datetime.utcnow() has returned
    last,    \* the request handled last and the response it got
    tasks    \* the handler coroutines that run await by await

vars == <<users, claims, files, clock, last, tasks>>

----------------------------------------------------------------------------
(* Bounds of the model *)

MaxClaims == 2    \* claims ever created
MaxClock  == 1    \* largest value of the clock
MaxDocs   == 2    \* documents uploaded to one claim
MaxRequests == 3  \* requests whose handlers run await by await

----------------------------------------------------------------------------
(* Values *)

NoUser  == 0          \* Python None where a user id is expected
None    == "None"     \* Python None where a string is expected
NoFile  == "absent"   \* no file at that path

CommunityUser   == "Community User"
NGO             == "NGO"
DistrictOfficer == "District Officer"
Ministry        == "Ministry"

Roles == {CommunityUser, NGO, DistrictOfficer, Ministry}

Pending     == "pending"
UnderReview == "under_review"
Approved    == "approved"
Rejected    == "rejected"
Statuses    == {Pending, UnderReview, Approved, Rejected}

\* Registered users of the deployment the claim routes are explored in:
\* two community users, and one user of each other role.
SeedUsers ==
    << [email |-> "u1@x", role |-> CommunityUser],
       [email |-> "u2@x", role |-> CommunityUser],
       [email |-> "u3@x", role |-> NGO],
       [email |-> "u4@x", role |-> DistrictOfficer],
       [email |-> "u5@x", role |-> Ministry] >>

FileNames == {"a.pdf", "b.jpg"}
Bytes     == {"x", "y"}
ClaimIds  == 1..MaxClaims
Paths     == ClaimIds \X FileNames

----------------------------------------------------------------------------
(* Requests *)

\* A bearer token as the server sees it: well-formed and in date ("valid"),
\* past its exp claim ("expired"), not decodable with the server's key
\* ("invalid"), or no Authorization header at all ("missing").
Token(kind, uid) == [kind |-> kind, user_id |-> uid]

Location(state) == [nonempty |-> TRUE, state |-> state]

\* HTTP response: status code, detail of an HTTPException, JSON body.
Response(code, detail, body) == [code |-> code, detail |-> detail, body |-> body]

HTTPException(code, detail) == Response(code, detail, None)

\* Values datetime.utcnow() may return now: the clock never runs backwards,
\* and two calls may fall into the same tick.
utcnow(from) == {t \in from..(from + 1) : t <= MaxClock}

----------------------------------------------------------------------------
(* Authentication *)

\* HTTPBearer(): a request without credentials is refused before the
\* handler runs; the status code is the framework's, 403 in the releases
\* that answer "Not authenticated" and 401 in later ones.
security(tok) ==
    IF tok.kind = "missing"
    THEN {HTTPException(403, "Not authenticated"), HTTPException(401, "Not authenticated")}
    ELSE {Response(200, None, tok)}

verify_jwt_token(tok) ==
    CASE tok.kind = "expired" -> HTTPException(401, "Token expired")
      [] tok.kind = "invalid" -> HTTPException(401, "Invalid token")
      [] OTHER                -> Response(200, None, [user_id |-> tok.user_id])

\* The outcomes of the get_current_user dependency: an HTTPException, or
\* code 200 with the user document (its _id in body.id).
get_current_user(tok) ==
    { IF cred.code # 200 THEN cred
      ELSE LET payload == verify_jwt_token(tok) IN
           IF payload.code # 200 THEN payload
           ELSE IF payload.body.user_id \notin 1..Len(users)
                THEN HTTPException(401, "User not found")
                ELSE Response(200, None,
                              [id   |-> payload.body.user_id,
                               role |-> users[payload.body.user_id].role])
      : cred \in security(tok) }

----------------------------------------------------------------------------
(* Store operations *)

\* find_one({"_id": cid}) finds a document.
Exists(cid) == cid \in 1..Len(claims)

\* Variant of SetFields: the document is written back whole, as the status
\* route would have read it before any upload.
SetFields_Replace(c, d) ==
    [c EXCEPT !.status = d.status, !.updated_at = d.updated_at,
              !.officer_notes = d.officer_notes, !.reviewed_by = d.reviewed_by,
              !.documents = << >>]

\* Variant of SetFields: officer_notes is not written.
SetFields_NoNotes(c, d) ==
    [c EXCEPT !.status = d.status, !.updated_at = d.updated_at,
              !.reviewed_by = d.reviewed_by]

\* update_one({"_id": cid}, {"$set": d}) for the four fields the status
\* route sets: the new collection and pymongo's modified_count, which is
\* 0 when no document matches and also when the matched document already
\* holds exactly these values.
SetFields(c, d) ==
    [c EXCEPT !.status = d.status, !.updated_at = d.updated_at,
              !.officer_notes = d.officer_notes, !.reviewed_by = d.reviewed_by]

update_one_set(cid, d) ==
    IF ~Exists(cid) THEN [claims |-> claims, modified_count |-> 0]
    ELSE LET new == SetFields(claims[cid], d) IN
         [claims |-> [claims EXCEPT ![cid] = new],
          modified_count |-> IF new = claims[cid] THEN 0 ELSE 1]

\* Variant of PushDocument: the documents list is replaced, not appended to.
PushDocument_Replace(c, path, analysis, t) ==
    [c EXCEPT !.documents = <<path>>, !.ai_analysis = analysis,
              !.updated_at = t]

\* Variant of PushDocument: updated_at is left as it was.
PushDocument_KeepTime(c, path, analysis, t) ==
    [c EXCEPT !.documents = Append(@, path), !.ai_analysis = analysis]

\* Variant of PushDocument: the new path goes in front of the list.
PushDocument_Prepend(c, path, analysis, t) ==
    [c EXCEPT !.documents = <<path>> \o @, !.ai_analysis = analysis,
              !.updated_at = t]

\* update_one({"_id": cid}, {"$push": {"documents": path}, "$set": {...}})
PushDocument(c, path, analysis, t) ==
    [c EXCEPT !.documents = Append(@, path), !.ai_analysis = analysis,
              !.updated_at = t]

update_one_push(cid, path, analysis, t) ==
    IF ~Exists(cid) THEN claims
    ELSE [claims EXCEPT ![cid] = PushDocument(claims[cid], path, analysis, t)]

----------------------------------------------------------------------------
(* Claim routes *)

\* What a handler leaves behind: the route, the caller's token, the claim
\* id of the path and the response.  A handler that runs in one step is
\* none of the coroutines in `tasks`.
Done(op, tok, cid, resp) ==
    /\ last' = [op |-> op, tok |-> tok, cid |-> cid, resp |-> resp]
    /\ UNCHANGED tasks

\* Variant of NewClaim: the claim keeps the user_id of the payload.
NewClaim_PayloadOwner(claim_data, uid, id, t1, t2) ==
    [id            |-> id,
     user_id       |-> claim_data.user_id,
     location      |-> claim_data.location,
     status        |-> claim_data.status,
     documents     |-> claim_data.documents,
     ai_analysis   |-> claim_data.ai_analysis,
     created_at    |-> t1,
     updated_at    |-> t2,
     officer_notes |-> None,
     reviewed_by   |-> NoUser]

\* claim_data.dict() with _id, user_id, created_at and updated_at
\* overwritten; every other field is the payload's (status, documents and
\* ai_analysis default to "pending", [] and None when the payload has none).
\* A new document has no officer_notes and no reviewed_by field.
NewClaim(claim_data, uid, id, t1, t2) ==
    [id            |-> id,
     user_id       |-> uid,
     location      |-> claim_data.location,
     status        |-> claim_data.status,
     documents     |-> claim_data.documents,
     ai_analysis   |-> claim_data.ai_analysis,
     created_at    |-> t1,
     updated_at    |-> t2,
     officer_notes |-> None,
     reviewed_by   |-> NoUser]

create_claim(tok, claim_data) ==
    \E current_user \in get_current_user(tok) :
        IF current_user.code # 200
        THEN /\ Done("create_claim", tok, 0, current_user)
             /\ UNCHANGED <<users, claims, files, clock>>
        ELSE /\ Len(claims) < MaxClaims
             /\ \E t1 \in utcnow(clock) : \E t2 \in utcnow(t1) :
                  LET claim_dict == NewClaim(claim_data, current_user.body.id,
                                             Len(claims) + 1, t1, t2)
                  IN  /\ claims' = Append(claims, claim_dict)
                      /\ clock' = t2
                      /\ Done("create_claim", tok, Len(claims) + 1,
                              Response(200, None, claim_dict))
             /\ UNCHANGED <<users, files>>

\* Variant of ClaimsFor: no role filter.
ClaimsFor_NoFilter(user) == claims

\* The role filter of get_claims.
ClaimsFor(user) ==
    IF user.role \in {CommunityUser}
    THEN SelectSeq(claims, LAMBDA c : c.user_id = user.id)
    ELSE claims

get_claims(tok) ==
    /\ \E current_user \in get_current_user(tok) :
        IF current_user.code # 200
        THEN Done("get_claims", tok, 0, current_user)
        ELSE Done("get_claims", tok, 0,
                  Response(200, None, ClaimsFor(current_user.body)))
    /\ UNCHANGED <<users, claims, files, clock>>

\* Variant of AccessDenied: ownership is required of every role.
AccessDenied_AllRoles(user, claim) == claim.user_id # user.id

\* Variant of AccessDenied: a Community User passes like any other role.
AccessDenied_Never(user, claim) == FALSE

\* The permission check shared by get_claim and upload_document.
AccessDenied(user, claim) ==
    user.role = CommunityUser /\ claim.user_id # user.id

GetClaimResponse(user, cid) ==
    IF ~Exists(cid) THEN HTTPException(404, "Claim not found")
    ELSE IF AccessDenied(user, claims[cid]) THEN HTTPException(403, "Access denied")
    ELSE Response(200, None, claims[cid])

get_claim(tok, cid) ==
    /\ \E current_user \in get_current_user(tok) :
        IF current_user.code # 200
        THEN Done("get_claim", tok, cid, current_user)
        ELSE Done("get_claim", tok, cid, GetClaimResponse(current_user.body, cid))
    /\ UNCHANGED <<users, claims, files, clock>>

\* Variant of CanUpdateStatus: every role but Community User.
CanUpdateStatus_AnyStaff(user) == user.role # CommunityUser

\* Only officers and ministry can update status.
CanUpdateStatus(user) == user.role \in {DistrictOfficer, Ministry}

UpdateDict(update_data, user, t) ==
    [status        |-> update_data.status,
     updated_at    |-> t,
     officer_notes |-> update_data.officer_notes,
     reviewed_by   |-> user.id]

\* Variant of UpdateResponse: the result of the write is not looked at.
UpdateResponse_AlwaysOk(result) ==
    Response(200, "Claim status updated successfully", None)

\* The response of the status route after the write.
UpdateResponse(result) ==
    IF result.modified_count = 0
    THEN HTTPException(404, "Claim not found")
    ELSE Response(200, "Claim status updated successfully", None)

update_claim_status(tok, cid, update_data) ==
    \E current_user \in get_current_user(tok) :
        IF current_user.code # 200
        THEN /\ Done("update_claim_status", tok, cid, current_user)
             /\ UNCHANGED <<users, claims, files, clock>>
        ELSE IF ~CanUpdateStatus(current_user.body)
        THEN /\ Done("update_claim_status", tok, cid,
                     HTTPException(403, "Insufficient permissions"))
             /\ UNCHANGED <<users, claims, files, clock>>
        ELSE \E t \in utcnow(clock) :
               LET result == update_one_set(cid, UpdateDict(update_data, current_user.body, t))
               IN  /\ claims' = result.claims
                   /\ clock' = t
                   /\ Done("update_claim_status", tok, cid,
                           UpdateResponse(result))
                   /\ UNCHANGED <<users, files>>

----------------------------------------------------------------------------
(* Document upload *)

FilePath(cid, filename) == <<cid, filename>>

\* analyze_document_with_ai: the analyzer's text about the file stored at
\* the path when it answers, a failure note when the call raises.
analyze_document_with_ai(content, ai) ==
    IF ai = "ok" THEN "analysis of " \o content ELSE "AI analysis failed"

upload_document(tok, cid, filename, content, ai) ==
    \E current_user \in get_current_user(tok) :
        IF current_user.code # 200
        THEN /\ Done("upload_document", tok, cid, current_user)
             /\ UNCHANGED <<users, claims, files, clock>>
        ELSE IF ~Exists(cid)
        THEN /\ Done("upload_document", tok, cid, HTTPException(404, "Claim not found"))
             /\ UNCHANGED <<users, claims, files, clock>>
        ELSE IF AccessDenied(current_user.body, claims[cid])
        THEN /\ Done("upload_document", tok, cid, HTTPException(403, "Access denied"))
             /\ UNCHANGED <<users, claims, files, clock>>
        ELSE /\ Len(claims[cid].documents) < MaxDocs
             /\ LET file_path == FilePath(cid, filename)
                    stored == [files EXCEPT ![file_path] = content]
                    ai_analysis == analyze_document_with_ai(stored[file_path], ai)
                IN  /\ files' = stored
                    /\ \E t \in utcnow(clock) :
                         /\ claims' = update_one_push(cid, file_path, ai_analysis, t)
                         /\ clock' = t
                    /\ Done("upload_document", tok, cid,
                            Response(200, "Document uploaded and analyzed successfully",
                                     [file_path |-> file_path, ai_analysis |-> ai_analysis]))
             /\ UNCHANGED users

----------------------------------------------------------------------------
(* Dashboard and report routes *)

count_documents(status) ==
    Cardinality({i \in 1..Len(claims) : claims[i].status = status})

\* Variant of ApprovalRate: the quotient is not scaled to a percentage.
ApprovalRate_Fraction(approved, total) ==
    IF total > 0 THEN [num |-> approved, den |-> total]
    ELSE [num |-> 0, den |-> 1]

\* Variant of ApprovalRate: the division is not guarded.
ApprovalRate_NoGuard(approved, total) ==
    [num |-> approved * 100, den |-> total]

\* approved / total * 100 as the exact fraction num/den; 0 over no claims.
ApprovalRate(approved, total) ==
    IF total > 0 THEN [num |-> approved * 100, den |-> total]
    ELSE [num |-> 0, den |-> 1]

\* Variant of generate_insights_for_dashboard: a failed call leaves no note.
generate_insights_NoNote(ai, t) ==
    [ai_insights |-> IF ai = "ok" THEN "insights" ELSE None, generated_at |-> t]

\* The analyzer's text, or the note of the except branch when the call
\* raises, with the time of generation.
generate_insights_for_dashboard(ai, t) ==
    [ai_insights  |-> IF ai = "ok" THEN "insights" ELSE "Insights generation failed",
     generated_at |-> t]

get_dashboard_stats(tok, ai) ==
    \E current_user \in get_current_user(tok) :
        IF current_user.code # 200
        THEN /\ Done("get_dashboard_stats", tok, 0, current_user)
             /\ UNCHANGED <<users, claims, files, clock>>
        ELSE \E t1 \in utcnow(clock) : \E t2 \in utcnow(t1) :
               LET total_claims    == Len(claims)
                   approved_claims == count_documents(Approved)
                   pending_claims  == count_documents(Pending)
                   rejected_claims == count_documents(Rejected)
               IN  /\ Done("get_dashboard_stats", tok, 0,
                           Response(200, None,
                             [statistics |->
                                [total_claims    |-> total_claims,
                                 approved_claims |-> approved_claims,
                                 pending_claims  |-> pending_claims,
                                 rejected_claims |-> rejected_claims,
                                 approval_rate   |-> ApprovalRate(approved_claims, total_claims)],
                              ai_insights  |-> generate_insights_for_dashboard(ai, t1),
                              last_updated |-> t2]))
                   /\ clock' = t2
                   /\ UNCHANGED <<users, claims, files>>

MapEntry(claim) ==
    [id |-> claim.id, status |-> claim.status, location |-> claim.location,
     created_at |-> claim.created_at]

MapData ==
    LET shown == SelectSeq(claims, LAMBDA c : c.location.nonempty)
    IN  [i \in 1..Len(shown) |-> MapEntry(shown[i])]

get_map_data(tok) ==
    /\ \E current_user \in get_current_user(tok) :
        IF current_user.code # 200
        THEN Done("get_map_data", tok, 0, current_user)
        ELSE Done("get_map_data", tok, 0, Response(200, None, MapData))
    /\ UNCHANGED <<users, claims, files, clock>>

\* Variant of aggregate: documents without a state are left out.
aggregate_DropNull(docs) ==
    LET InState(st) == {i \in 1..Len(docs) : docs[i].location.state = st}
        Having(st, status) == Cardinality({i \in InState(st) : docs[i].status = status})
    IN  { [id           |-> st,
           total_claims |-> Cardinality(InState(st)),
           approved     |-> Having(st, Approved),
           pending      |-> Having(st, Pending),
           rejected     |-> Having(st, Rejected)]
          : st \in {docs[i].location.state : i \in 1..Len(docs)} \ {None} }

\* aggregate(pipeline) over a collection.  The $group stage: one group per
\* value of location.state, its _id that value; a location without a state
\* key, or with a null one, has the value None.  The order of the groups
\* is not specified: a set.
aggregate(docs) ==
    LET InState(st) == {i \in 1..Len(docs) : docs[i].location.state = st}
        Having(st, status) == Cardinality({i \in InState(st) : docs[i].status = status})
    IN  { [id           |-> st,
           total_claims |-> Cardinality(InState(st)),
           approved     |-> Having(st, Approved),
           pending      |-> Having(st, Pending),
           rejected     |-> Having(st, Rejected)]
          : st \in {docs[i].location.state : i \in 1..Len(docs)} }

StateSummary == aggregate(claims)

get_summary_report(tok) ==
    \E current_user \in get_current_user(tok) :
        IF current_user.code # 200
        THEN /\ Done("get_summary_report", tok, 0, current_user)
             /\ UNCHANGED <<users, claims, files, clock>>
        ELSE \E t \in utcnow(clock) :
               /\ Done("get_summary_report", tok, 0,
                       Response(200, None,
                                [report_type |-> "summary", generated_at |-> t,
                                 data |-> StateSummary]))
               /\ clock' = t
               /\ UNCHANGED <<users, claims, files>>

----------------------------------------------------------------------------
(* Handlers that run await by await *)

RequestIds == 1..MaxRequests

\* A coroutine: where it stands ("idle" before the request arrives, "done"
\* after the response), its route, token and claim id, the document it has
\* built for the store, and its response once it has one.
Task(phase, route, tok, cid, data, resp) ==
    [phase |-> phase, route |-> route, tok |-> tok, cid |-> cid,
     data |-> data, resp |-> resp]

NoResponse == Response(0, None, None)

IdleTask == Task("idle", "none", Token("missing", NoUser), 0, None, NoResponse)

\* The coroutine returns or raises: the response goes to the client.
Answer(r, route, tok, cid, data, resp) ==
    /\ tasks' = [tasks EXCEPT ![r] = Task("done", route, tok, cid, data, resp)]
    /\ last' = [op |-> route, tok |-> tok, cid |-> cid, resp |-> resp]

\* update_claim_status up to its await of update_one: the dependency, the
\* role check and update_dict with its timestamp.
update_claim_status_build(r, tok, cid, update_data) ==
    /\ tasks[r].phase = "idle"
    /\ \E current_user \in get_current_user(tok) :
        IF current_user.code # 200
        THEN /\ Answer(r, "update_claim_status", tok, cid, None, current_user)
             /\ UNCHANGED <<users, claims, files, clock>>
        ELSE IF ~CanUpdateStatus(current_user.body)
        THEN /\ Answer(r, "update_claim_status", tok, cid, None,
                       HTTPException(403, "Insufficient permissions"))
             /\ UNCHANGED <<users, claims, files, clock>>
        ELSE \E t \in utcnow(clock) :
               /\ tasks' = [tasks EXCEPT ![r] =
                               Task("built", "update_claim_status", tok, cid,
                                    UpdateDict(update_data, current_user.body, t),
                                    NoResponse)]
               /\ clock' = t
               /\ UNCHANGED <<users, claims, files, last>>

\* update_claim_status from update_one on: the store applies the $set of
\* one document in one step, and the handler answers by modified_count.
update_claim_status_write(r) ==
    /\ tasks[r].phase = "built"
    /\ tasks[r].route = "update_claim_status"
    /\ LET result == update_one_set(tasks[r].cid, tasks[r].data)
       IN  /\ claims' = result.claims
           /\ Answer(r, "update_claim_status", tasks[r].tok, tasks[r].cid,
                     tasks[r].data, UpdateResponse(result))
    /\ UNCHANGED <<users, files, clock>>

\* upload_document up to its await of file.read(): the dependency, the
\* lookup of the claim, the permission check and the path of the file.
upload_document_find(r, tok, cid, filename, content) ==
    /\ tasks[r].phase = "idle"
    /\ \E current_user \in get_current_user(tok) :
        IF current_user.code # 200
        THEN Answer(r, "upload_document", tok, cid, None, current_user)
        ELSE IF ~Exists(cid)
        THEN Answer(r, "upload_document", tok, cid, None,
                    HTTPException(404, "Claim not found"))
        ELSE IF AccessDenied(current_user.body, claims[cid])
        THEN Answer(r, "upload_document", tok, cid, None,
                    HTTPException(403, "Access denied"))
        ELSE /\ tasks' = [tasks EXCEPT ![r] =
                             Task("found", "upload_document", tok, cid,
                                  [file_path |-> FilePath(cid, filename),
                                   content |-> content, ai_analysis |-> None],
                                  NoResponse)]
             /\ UNCHANGED last
    /\ UNCHANGED <<users, claims, files, clock>>

\* upload_document: the bytes of the request are written to the path,
\* replacing what the path held.
upload_document_save(r) ==
    /\ tasks[r].phase = "found"
    /\ tasks[r].route = "upload_document"
    /\ files' = [files EXCEPT ![tasks[r].data.file_path] = tasks[r].data.content]
    /\ tasks' = [tasks EXCEPT ![r].phase = "saved"]
    /\ UNCHANGED <<users, claims, clock, last>>

\* upload_document: the analyzer is sent the file that is at the path now.
upload_document_analyze(r, ai) ==
    /\ tasks[r].phase = "saved"
    /\ tasks[r].route = "upload_document"
    /\ tasks' = [tasks EXCEPT ![r].phase = "analyzed",
                              ![r].data.ai_analysis =
                                  analyze_document_with_ai(files[tasks[r].data.file_path], ai)]
    /\ UNCHANGED <<users, claims, files, clock, last>>

\* upload_document from update_one on: the store applies the $push and the
\* $set of one document in one step.
upload_document_push(r) ==
    /\ tasks[r].phase = "analyzed"
    /\ tasks[r].route = "upload_document"
    /\ \E t \in utcnow(clock) :
         /\ claims' = update_one_push(tasks[r].cid, tasks[r].data.file_path,
                                      tasks[r].data.ai_analysis, t)
         /\ clock' = t
    /\ Answer(r, "upload_document", tasks[r].tok, tasks[r].cid, tasks[r].data,
              Response(200, "Document uploaded and analyzed successfully",
                       [file_path   |-> tasks[r].data.file_path,
                        ai_analysis |-> tasks[r].data.ai_analysis]))
    /\ UNCHANGED <<users, files>>

\* get_dashboard_stats up to its second await: the dependency and
\* count_documents({}).
get_dashboard_stats_total(r, tok) ==
    /\ tasks[r].phase = "idle"
    /\ \E current_user \in get_current_user(tok) :
        IF current_user.code # 200
        THEN Answer(r, "get_dashboard_stats", tok, 0, None, current_user)
        ELSE /\ tasks' = [tasks EXCEPT ![r] =
                             Task("total", "get_dashboard_stats", tok, 0,
                                  [total_claims    |-> Len(claims),
                                   approved_claims |-> 0,
                                   pending_claims  |-> 0,
                                   rejected_claims |-> 0],
                                  NoResponse)]
             /\ UNCHANGED last
    /\ UNCHANGED <<users, claims, files, clock>>

\* get_dashboard_stats: count_documents({"status": "approved"}).
get_dashboard_stats_approved(r) ==
    /\ tasks[r].phase = "total"
    /\ tasks[r].route = "get_dashboard_stats"
    /\ tasks' = [tasks EXCEPT ![r].phase = "approved",
                              ![r].data.approved_claims = count_documents(Approved)]
    /\ UNCHANGED <<users, claims, files, clock, last>>

\* get_dashboard_stats: count_documents({"status": "pending"}).
get_dashboard_stats_pending(r) ==
    /\ tasks[r].phase = "approved"
    /\ tasks[r].route = "get_dashboard_stats"
    /\ tasks' = [tasks EXCEPT ![r].phase = "pending",
                              ![r].data.pending_claims = count_documents(Pending)]
    /\ UNCHANGED <<users, claims, files, clock, last>>

\* get_dashboard_stats: count_documents({"status": "rejected"}).
get_dashboard_stats_rejected(r) ==
    /\ tasks[r].phase = "pending"
    /\ tasks[r].route = "get_dashboard_stats"
    /\ tasks' = [tasks EXCEPT ![r].phase = "rejected",
                              ![r].data.rejected_claims = count_documents(Rejected)]
    /\ UNCHANGED <<users, claims, files, clock, last>>

\* get_dashboard_stats from the insights on: the response is built from
\* the four counts taken so far.
get_dashboard_stats_respond(r, ai) ==
    /\ tasks[r].phase = "rejected"
    /\ tasks[r].route = "get_dashboard_stats"
    /\ \E t1 \in utcnow(clock) : \E t2 \in utcnow(t1) :
         /\ Answer(r, "get_dashboard_stats", tasks[r].tok, 0, tasks[r].data,
                   Response(200, None,
                     [statistics |->
                        [total_claims    |-> tasks[r].data.total_claims,
                         approved_claims |-> tasks[r].data.approved_claims,
                         pending_claims  |-> tasks[r].data.pending_claims,
                         rejected_claims |-> tasks[r].data.rejected_claims,
                         approval_rate   |-> ApprovalRate(tasks[r].data.approved_claims,
                                                          tasks[r].data.total_claims)],
                      ai_insights  |-> generate_insights_for_dashboard(ai, t1),
                      last_updated |-> t2]))
         /\ clock' = t2
    /\ UNCHANGED <<users, claims, files>>

\* db.users.find_one({"email": email}) finds a user.
EmailRegistered(email) == \E i \in 1..Len(users) : users[i].email = email

\* register_user up to its await of insert_one: the lookup by email, and
\* user_dict with the role of the request.
register_user_find(r, user_data) ==
    /\ tasks[r].phase = "idle"
    /\ IF EmailRegistered(user_data.email)
       THEN Answer(r, "register_user", Token("missing", NoUser), 0,
                   [email |-> user_data.email, role |-> user_data.role],
                   HTTPException(400, "Email already registered"))
       ELSE /\ tasks' = [tasks EXCEPT ![r] =
                            Task("checked", "register_user", Token("missing", NoUser), 0,
                                 [email |-> user_data.email, role |-> user_data.role],
                                 NoResponse)]
            /\ UNCHANGED last
    /\ UNCHANGED <<users, claims, files, clock>>

\* register_user from insert_one on: the user is stored and the response
\* carries a token for it.
register_user_insert(r) ==
    /\ tasks[r].phase = "checked"
    /\ tasks[r].route = "register_user"
    /\ users' = Append(users, tasks[r].data)
    /\ Answer(r, "register_user", Token("missing", NoUser), 0, tasks[r].data,
              Response(200, None,
                       [token |-> Token("valid", Len(users) + 1),
                        user  |-> [id    |-> Len(users) + 1,
                                   email |-> tasks[r].data.email,
                                   role  |-> tasks[r].data.role]]))
    /\ UNCHANGED <<claims, files, clock>>

----------------------------------------------------------------------------
(* The system *)

\* A valid token of each registered user.
UserTokens == {Token("valid", u) : u \in 1..Len(users)}

\* Create payloads: with and without a user_id and a status of their own.
ClaimPayloads ==
    [user_id : {NoUser, 2}, status : {Pending, Approved, "granted"},
     location : {Location("A")}, documents : {<< >>}, ai_analysis : {None}]

\* Status-update payloads.
ClaimUpdates ==
    [status : Statuses \cup {"granted"}, officer_notes : {None, "verified"}]

AnalyzerOutcomes == {"ok", "error"}

Init ==
    /\ users = SeedUsers
    /\ claims = << >>
    /\ files = [p \in Paths |-> NoFile]
    /\ clock = 0
    /\ last = [op |-> "none", tok |-> Token("missing", NoUser), cid |-> 0,
               resp |-> Response(200, None, None)]
    /\ tasks = [r \in RequestIds |-> IdleTask]

\* The users who file claims in the single-claim runs: a Community User
\* and a District Officer.
Claimants == {Token("valid", 1), Token("valid", 4)}

\* The status lifecycle of one claim under requests of every registered
\* user: creation, reads, and status updates.
Next ==
    \/ \E tok \in Claimants, claim_data \in ClaimPayloads :
          claims = << >> /\ create_claim(tok, claim_data)
    \/ \E tok \in UserTokens : get_claims(tok)
    \/ \E tok \in UserTokens, cid \in ClaimIds : get_claim(tok, cid)
    \/ \E tok \in UserTokens, cid \in ClaimIds, update_data \in ClaimUpdates :
          update_claim_status(tok, cid, update_data)

Spec == Init /\ [][Next]_vars

\* The documents of one claim under requests of every registered user:
\* creation, reads, uploads, and an officer's approval.
NextDocs ==
    \/ \E tok \in Claimants :
          claims = << >> /\ create_claim(tok, [user_id |-> 2, status |-> Pending,
                                  location |-> Location("A"), documents |-> << >>,
                                  ai_analysis |-> None])
    \/ \E tok \in UserTokens, cid \in ClaimIds : get_claim(tok, cid)
    \/ \E cid \in ClaimIds :
          update_claim_status(Token("valid", 4), cid,
                              [status |-> Approved, officer_notes |-> "verified"])
    \/ \E tok \in UserTokens, cid \in ClaimIds, filename \in FileNames,
          ai \in AnalyzerOutcomes :
          upload_document(tok, cid, filename, "x", ai)

SpecDocs == Init /\ [][NextDocs]_vars

\* Two claims of any two users, listed by every registered user.
NextList ==
    \/ \E tok \in UserTokens :
          create_claim(tok, [user_id |-> NoUser, status |-> Pending,
                             location |-> Location("A"), documents |-> << >>,
                             ai_analysis |-> None])
    \/ \E tok \in UserTokens : get_claims(tok)
    \/ \E cid \in ClaimIds :
          update_claim_status(Token("valid", 5), cid,
                              [status |-> Rejected, officer_notes |-> None])

SpecList == Init /\ [][NextList]_vars

\* The tokens of the authentication runs: those of a community user and of
\* an officer, and the three that authenticate nobody.
AuthTokens ==
    {Token("valid", 1), Token("valid", 4), Token("expired", 1),
     Token("invalid", NoUser), Token("missing", NoUser)}

\* Every route called with every kind of token, around one claim.
NextAuth ==
    \/ \E tok \in AuthTokens :
          claims = << >> /\ create_claim(tok, [user_id |-> NoUser, status |-> Pending,
                                  location |-> Location("A"), documents |-> << >>,
                                  ai_analysis |-> None])
    \/ \E tok \in AuthTokens : get_claims(tok)
    \/ \E tok \in AuthTokens, cid \in ClaimIds : get_claim(tok, cid)
    \/ \E tok \in AuthTokens, cid \in ClaimIds :
          update_claim_status(tok, cid, [status |-> Approved, officer_notes |-> "verified"])
    \/ \E tok \in AuthTokens, cid \in ClaimIds : upload_document(tok, cid, "a.pdf", "x", "ok")
    \/ \E tok \in AuthTokens, ai \in AnalyzerOutcomes : get_dashboard_stats(tok, ai)
    \/ \E tok \in AuthTokens : get_map_data(tok)
    \/ \E tok \in AuthTokens : get_summary_report(tok)

SpecAuth == Init /\ [][NextAuth]_vars

\* The reviews of the statistics and report runs.
Reviews == [status : {UnderReview, Approved, Rejected}, officer_notes : {None}]

\* Claims filed by a community user and reviewed, each once, by a District
\* Officer, with the dashboard statistics read by an NGO user.
NextStats ==
    \/ create_claim(Token("valid", 1), [user_id |-> NoUser, status |-> Pending,
                                        location |-> Location("A"), documents |-> << >>,
                                        ai_analysis |-> None])
    \/ \E cid \in ClaimIds, update_data \in Reviews :
          /\ Exists(cid) /\ claims[cid].status = Pending
          /\ update_claim_status(Token("valid", 4), cid, update_data)
    \/ \E ai \in AnalyzerOutcomes : get_dashboard_stats(Token("valid", 3), ai)

SpecStats == Init /\ [][NextStats]_vars

\* The locations of the claims of the report runs: in state A, in state B,
\* and with no state given.
ReportLocations == {Location("A"), Location("B"), Location(None)}

\* Claims of several regions filed by a community user and reviewed, each
\* once, by a District Officer, with the regional summary read by an NGO
\* user.
NextReports ==
    \/ \E location \in ReportLocations :
          create_claim(Token("valid", 1), [user_id |-> NoUser, status |-> Pending,
                                           location |-> location, documents |-> << >>,
                                           ai_analysis |-> None])
    \/ \E cid \in ClaimIds, update_data \in Reviews :
          /\ Exists(cid) /\ claims[cid].status = Pending
          /\ update_claim_status(Token("valid", 4), cid, update_data)
    \/ get_summary_report(Token("valid", 3))

SpecReports == Init /\ [][NextReports]_vars

\* The tokens of the two reviewers: the District Officer and the Ministry
\* user.
Reviewers == {Token("valid", 4), Token("valid", 5)}

\* The reviews that race: an approval with a note and a rejection without.
RacingReviews ==
    {[status |-> Approved, officer_notes |-> "verified"],
     [status |-> Rejected, officer_notes |-> None]}

\* Status updates of one claim whose handlers interleave at their awaits.
\* A request can name a claim only once it is stored: its id is a fresh
\* uuid4.
NextRace ==
    \/ claims = << >> /\ create_claim(Token("valid", 1),
                                      [user_id |-> NoUser, status |-> Pending,
                                       location |-> Location("A"), documents |-> << >>,
                                       ai_analysis |-> None])
    \/ \E r \in RequestIds, tok \in Reviewers, cid \in ClaimIds,
          update_data \in RacingReviews :
          Exists(cid) /\ update_claim_status_build(r, tok, cid, update_data)
    \/ \E r \in RequestIds : update_claim_status_write(r)

SpecRace == Init /\ [][NextRace]_vars

\* Uploads to one claim by its owner whose handlers interleave at their
\* awaits with each other and with the review of a District Officer.
NextUploads ==
    \/ claims = << >> /\ create_claim(Token("valid", 1),
                                      [user_id |-> NoUser, status |-> Pending,
                                       location |-> Location("A"), documents |-> << >>,
                                       ai_analysis |-> None])
    \/ \E r \in RequestIds, cid \in ClaimIds, filename \in FileNames :
          Exists(cid) /\ upload_document_find(r, Token("valid", 1), cid, filename, "x")
    \/ \E r \in RequestIds : upload_document_save(r)
    \/ \E r \in RequestIds : upload_document_analyze(r, "ok")
    \/ \E r \in RequestIds : upload_document_push(r)
    \/ \E r \in RequestIds, cid \in ClaimIds :
          /\ Exists(cid)
          /\ update_claim_status_build(r, Token("valid", 4), cid,
                                       [status |-> Approved, officer_notes |-> "verified"])
    \/ \E r \in RequestIds : update_claim_status_write(r)

SpecUploads == Init /\ [][NextUploads]_vars

\* Uploads of different bytes under one file name, by the owner of the
\* claim, whose handlers interleave at their awaits.
NextFiles ==
    \/ claims = << >> /\ create_claim(Token("valid", 1),
                                      [user_id |-> NoUser, status |-> Pending,
                                       location |-> Location("A"), documents |-> << >>,
                                       ai_analysis |-> None])
    \/ \E r \in RequestIds, cid \in ClaimIds, content \in Bytes :
          Exists(cid) /\ upload_document_find(r, Token("valid", 1), cid, "a.pdf", content)
    \/ \E r \in RequestIds : upload_document_save(r)
    \/ \E r \in RequestIds, ai \in AnalyzerOutcomes : upload_document_analyze(r, ai)
    \/ \E r \in RequestIds : upload_document_push(r)

SpecFiles == Init /\ [][NextFiles]_vars

\* Dashboard statistics read once by an NGO user, count by count, while a
\* community user files claims and a District Officer approves them.
NextDash ==
    \/ create_claim(Token("valid", 1), [user_id |-> NoUser, status |-> Pending,
                                        location |-> Location("A"), documents |-> << >>,
                                        ai_analysis |-> None])
    \/ \E cid \in ClaimIds :
          /\ Exists(cid) /\ claims[cid].status = Pending
          /\ update_claim_status(Token("valid", 4), cid,
                                 [status |-> Approved, officer_notes |-> None])
    \/ get_dashboard_stats_total(1, Token("valid", 3))
    \/ \E r \in RequestIds : get_dashboard_stats_approved(r)
    \/ \E r \in RequestIds : get_dashboard_stats_pending(r)
    \/ \E r \in RequestIds : get_dashboard_stats_rejected(r)
    \/ \E r \in RequestIds : get_dashboard_stats_respond(r, "ok")

SpecDash == Init /\ [][NextDash]_vars

\* Registration requests: for the email of a registered user and for two
\* new ones, with each of the four roles and with one that is none of
\* them.
Registrations ==
    [email : {"u1@x", "new@x", "other@x"}, role : Roles \cup {"Admin"}]

\* Registrations whose handlers interleave at their awaits.
NextRegister ==
    \/ \E r \in RequestIds, user_data \in Registrations : register_user_find(r, user_data)
    \/ \E r \in RequestIds : register_user_insert(r)

SpecRegister == Init /\ [][NextRegister]_vars

----------------------------------------------------------------------------
(* Properties *)

Caller == last.tok.user_id
CallerRole == users[last.tok.user_id].role
Succeeded(op) == last.op = op /\ last.resp.code = 200

\* C1: a claim's owner is the authenticated user whose create request
\* created it, whatever user_id the payload carried, and no later step
\* (status update, document upload, read) changes the owner of any claim.
C1_OwnerIsCreator ==
    [][ /\ (last'.op = "create_claim" /\ last'.resp.code = 200)
            => /\ Len(claims') = Len(claims) + 1
               /\ claims'[last'.cid].user_id = last'.tok.user_id
        /\ \A i \in 1..Len(claims) :
            /\ i \in 1..Len(claims')
            /\ claims'[i].user_id = claims[i].user_id ]_vars

\* A user other than the owner has uploaded to a claim an officer has
\* already reviewed, and the claim's owner is neither of them.
C1_Witness ==
    /\ Succeeded("upload_document")
    /\ claims[last.cid].user_id = 1
    /\ Caller = 3
    /\ claims[last.cid].reviewed_by = 4

\* C2: the list a Community User gets holds exactly the claims that user
\* owns, each once and in store order, and the list an NGO, District
\* Officer or Ministry user gets is the whole store.
C2_ListByRole ==
    Succeeded("get_claims") =>
        LET body == last.resp.body
            mine == {i \in 1..Len(claims) : claims[i].user_id = Caller}
        IN  /\ CallerRole = CommunityUser =>
                /\ \A k \in 1..Len(body) : body[k].user_id = Caller
                /\ \A i \in mine : \E k \in 1..Len(body) : body[k] = claims[i]
                /\ Len(body) = Cardinality(mine)
            /\ CallerRole \in {NGO, DistrictOfficer, Ministry} => body = claims

\* A community user who owns one of two claims has listed the claims.
C2_Witness ==
    /\ Succeeded("get_claims")
    /\ CallerRole = CommunityUser
    /\ Len(claims) = 2
    /\ Len(last.resp.body) = 1

\* C3: a status update by a user who is neither District Officer nor
\* Ministry is answered 403 "Insufficient permissions" and changes no claim,
\* whether or not the claim id exists.
C3_UpdateDenied ==
    [][ (/\ last'.op = "update_claim_status"
         /\ last'.tok.kind = "valid"
         /\ users[last'.tok.user_id].role \notin {DistrictOfficer, Ministry})
        => /\ last'.resp.code = 403
           /\ last'.resp.detail = "Insufficient permissions"
           /\ claims' = claims ]_vars

\* An NGO user has been refused a status update of an existing claim.
C3_Witness ==
    /\ last.op = "update_claim_status"
    /\ CallerRole = NGO
    /\ Exists(last.cid)
    /\ last.resp.code = 403

IsOfficer(tok) ==
    tok.kind = "valid" /\ users[tok.user_id].role \in {DistrictOfficer, Ministry}

\* What the owner of claim cid gets when reading it.
OwnerRead(cid) ==
    GetClaimResponse([id |-> claims[cid].user_id, role |-> users[claims[cid].user_id].role], cid)

\* The status route's writes: status, reviewer and notes as requested, and
\* the owner reads them back.
StatusWritten(tok, cid, update_data) ==
    /\ claims'[cid].status = update_data.status
    /\ claims'[cid].reviewed_by = tok.user_id
    /\ claims'[cid].officer_notes = update_data.officer_notes
    /\ OwnerRead(cid)'.code = 200
    /\ OwnerRead(cid)'.body.status = update_data.status
    /\ OwnerRead(cid)'.body.reviewed_by = tok.user_id
    /\ OwnerRead(cid)'.body.officer_notes = update_data.officer_notes

\* C4 as stated: a status update by a District Officer or Ministry user on
\* an existing claim, whatever its prior status, sets status, reviewed_by
\* and officer_notes as requested, moves updated_at strictly beyond its
\* previous value, and the owner reads these values back.
C4_UpdateAdvances ==
    [][ \A tok \in UserTokens, cid \in ClaimIds :
          (/\ last'.op = "update_claim_status" /\ last'.tok = tok /\ last'.cid = cid
           /\ IsOfficer(tok) /\ Exists(cid))
          => \A update_data \in ClaimUpdates :
               update_claim_status(tok, cid, update_data)
          => /\ StatusWritten(tok, cid, update_data)
             /\ claims'[cid].updated_at > claims[cid].updated_at ]_vars

\* C4 amended: such an update sets status, reviewed_by and officer_notes as
\* requested, the owner reads them back, and updated_at becomes the time the
\* request read from the clock, which may equal the previous updated_at.
C4_UpdateWrites ==
    [][ \A tok \in UserTokens, cid \in ClaimIds :
          (/\ last'.op = "update_claim_status" /\ last'.tok = tok /\ last'.cid = cid
           /\ IsOfficer(tok) /\ Exists(cid))
          => \A update_data \in ClaimUpdates :
               update_claim_status(tok, cid, update_data)
          => /\ StatusWritten(tok, cid, update_data)
             /\ claims'[cid].updated_at = clock'
             /\ claims'[cid].updated_at \in utcnow(clock) ]_vars

\* A Ministry user has rejected, with a note, a claim created in the same
\* clock tick: updated_at has not moved.
C4_Witness ==
    /\ Succeeded("update_claim_status")
    /\ CallerRole = Ministry
    /\ claims[last.cid].status = Rejected
    /\ claims[last.cid].officer_notes = "verified"
    /\ claims[last.cid].reviewed_by = Caller
    /\ claims[last.cid].updated_at = claims[last.cid].created_at

\* The caller may upload to claim cid: its owner, or any user whose role is
\* not Community User.
MayUpload(tok, cid) ==
    /\ tok.kind = "valid"
    /\ Exists(cid)
    /\ \/ claims[cid].user_id = tok.user_id
       \/ users[tok.user_id].role \in {NGO, DistrictOfficer, Ministry}

\* C5: an authorized upload to an existing claim appends exactly one entry,
\* its file path, to the claim's documents and is answered 200, whether the
\* analyzer answers or fails; when it fails, ai_analysis holds the failure
\* note.
C5_UploadAppendsOne ==
    [][ \A tok \in UserTokens, cid \in ClaimIds :
          (/\ last'.op = "upload_document" /\ last'.tok = tok /\ last'.cid = cid
           /\ MayUpload(tok, cid))
          => \A filename \in FileNames, content \in Bytes, ai \in AnalyzerOutcomes :
               upload_document(tok, cid, filename, content, ai)
          => /\ last'.resp.code = 200
             /\ claims'[cid].documents =
                    Append(claims[cid].documents, FilePath(cid, filename))
             /\ \A i \in 1..Len(claims) : i # cid => claims'[i] = claims[i]
             /\ ai = "error" => claims'[cid].ai_analysis = "AI analysis failed"
             /\ ai = "ok" => claims'[cid].ai_analysis # "AI analysis failed" ]_vars

\* A second upload has succeeded although the analyzer failed: the claim
\* holds two documents and the failure note.
C5_Witness ==
    /\ Succeeded("upload_document")
    /\ Len(claims[last.cid].documents) = 2
    /\ claims[last.cid].ai_analysis = "AI analysis failed"
    /\ last.resp.body.ai_analysis = "AI analysis failed"

\* C6: reading one claim is answered 404 when the id does not exist; when
\* it exists it is answered 403 "Access denied" exactly when the caller is
\* a Community User who does not own it, and 200 with the claim otherwise.
C6_ReadAccess ==
    (last.op = "get_claim" /\ last.tok.kind = "valid") =>
        IF ~Exists(last.cid)
        THEN last.resp.code = 404 /\ last.resp.detail = "Claim not found"
        ELSE LET denied == CallerRole = CommunityUser
                               /\ claims[last.cid].user_id # Caller
             IN  /\ denied => last.resp.code = 403 /\ last.resp.detail = "Access denied"
                 /\ ~denied => last.resp.code = 200 /\ last.resp.body = claims[last.cid]

\* A Community User has been refused a claim of another user.
C6_Witness ==
    /\ last.op = "get_claim"
    /\ Exists(last.cid)
    /\ CallerRole = CommunityUser
    /\ claims[last.cid].user_id # Caller
    /\ last.resp.code = 403

\* C7: an upload to an existing claim is allowed (200) for its owner and for
\* NGO, District Officer and Ministry users, and refused (403) for a
\* Community User who does not own the claim; a refused upload stores no
\* file and changes no claim.
C7_UploadAccess ==
    [][ (last'.op = "upload_document" /\ last'.tok.kind = "valid" /\ Exists(last'.cid))
        => IF MayUpload(last'.tok, last'.cid)
           THEN last'.resp.code = 200
           ELSE /\ last'.resp.code = 403
                /\ files' = files
                /\ claims' = claims ]_vars

\* A Community User has been refused an upload to another user's claim
\* that already holds a document.
C7_Witness ==
    /\ last.op = "upload_document"
    /\ Exists(last.cid)
    /\ CallerRole = CommunityUser
    /\ claims[last.cid].user_id # Caller
    /\ last.resp.code = 403
    /\ Len(claims[last.cid].documents) = 1

\* C8: a request to any claim, dashboard or report route whose token is
\* missing, expired or invalid is answered 401, never 403, with different
\* details for an expired and for an invalid token, and changes nothing in
\* the store.
C8_Unauthenticated ==
    [][ (last'.op # "none" /\ last'.tok.kind # "valid")
        => /\ last'.resp.code = 401
           /\ last'.tok.kind = "expired" => last'.resp.detail = "Token expired"
           /\ last'.tok.kind = "invalid" => last'.resp.detail = "Invalid token"
           /\ users' = users /\ claims' = claims /\ files' = files ]_vars

\* C9: a claim is created with status pending whatever the payload holds,
\* and the status of a stored claim changes only in a successful status
\* update by a District Officer or Ministry user.
C9_StatusOnlyByReview ==
    [][ /\ (last'.op = "create_claim" /\ last'.resp.code = 200)
            => claims'[last'.cid].status = Pending
        /\ \A i \in 1..Len(claims) :
            claims'[i].status # claims[i].status
            => /\ last'.op = "update_claim_status"
               /\ last'.cid = i
               /\ IsOfficer(last'.tok)
               /\ last'.resp.code = 200 ]_vars

\* C10: the status of every stored claim is one of pending, under_review,
\* approved, rejected.
C10_StatusInEnum ==
    \A i \in 1..Len(claims) : claims[i].status \in Statuses

\* One sequence is a prefix of another.
IsPrefix(s, t) == Len(s) <= Len(t) /\ \A k \in 1..Len(s) : t[k] = s[k]

\* C11: in every step every stored claim stays stored and its documents
\* list before the step is a prefix of its documents list after it: no
\* status update, upload or read removes or reorders an entry.
C11_DocumentsOnlyGrow ==
    [][ \A i \in 1..Len(claims) :
          /\ i \in 1..Len(claims')
          /\ IsPrefix(claims[i].documents, claims'[i].documents) ]_vars

\* An officer has reviewed a claim that holds two different documents.
C11_Witness ==
    /\ Succeeded("update_claim_status")
    /\ Len(claims[last.cid].documents) = 2
    /\ claims[last.cid].documents[1] # claims[last.cid].documents[2]
    /\ claims[last.cid].status = Approved

\* C12: after every step every stored claim has updated_at >= created_at,
\* and a successful status update or document upload leaves the claim's
\* updated_at at the time that request read from the clock.
C12_UpdatedAtRefreshed ==
    [][ /\ \A i \in 1..Len(claims') :
              claims'[i].updated_at >= claims'[i].created_at
        /\ (/\ last'.op \in {"update_claim_status", "upload_document"}
            /\ last'.resp.code = 200)
           => /\ claims'[last'.cid].updated_at = clock'
              /\ claims'[last'.cid].updated_at \in utcnow(clock) ]_vars

\* A document has been uploaded in a later clock tick than the claim's
\* creation and the officer's review: updated_at is ahead of created_at.
C12_Witness ==
    /\ Succeeded("upload_document")
    /\ claims[last.cid].reviewed_by = 4
    /\ claims[last.cid].created_at = 0
    /\ claims[last.cid].updated_at = 1

\* C13: over an empty claim store an authenticated dashboard statistics
\* request is answered 200 with total_claims 0 and approval_rate 0, the
\* rate being a defined number (no division by zero).
C13_EmptyStoreRateZero ==
    (last.op = "get_dashboard_stats" /\ last.tok.kind = "valid" /\ Len(claims) = 0)
    => /\ last.resp.code = 200
       /\ last.resp.body.statistics.total_claims = 0
       /\ last.resp.body.statistics.approval_rate.den > 0
       /\ last.resp.body.statistics.approval_rate.num = 0

\* The statistics of the empty store have been served although the
\* insights call failed.
C13_Witness ==
    /\ Succeeded("get_dashboard_stats")
    /\ Len(claims) = 0
    /\ last.resp.body.statistics.approved_claims = 0
    /\ last.resp.body.ai_insights.ai_insights = "Insights generation failed"

\* The stored claims with the given status.
WithStatus(status) == {i \in 1..Len(claims) : claims[i].status = status}

\* C14 as stated: over a store with at least one claim the approval_rate
\* of the dashboard statistics is approved / total, that is
\* approval_rate * total = approved.
C14_RateIsQuotient ==
    (Succeeded("get_dashboard_stats") /\ Len(claims) >= 1)
    => LET rate == last.resp.body.statistics.approval_rate
       IN  /\ rate.den > 0
           /\ rate.num * Len(claims) = Cardinality(WithStatus(Approved)) * rate.den

\* C14 amended: over a store with at least one claim the approval_rate is
\* the percentage of approved claims, approved / total * 100, that is
\* approval_rate * total = 100 * approved.
C14_RateIsPercentage ==
    (Succeeded("get_dashboard_stats") /\ Len(claims) >= 1)
    => LET rate == last.resp.body.statistics.approval_rate
       IN  /\ rate.den > 0
           /\ rate.num * Len(claims) = 100 * Cardinality(WithStatus(Approved)) * rate.den

\* The statistics of a store with one approved and one rejected claim have
\* been served: the approval rate is 50.
C14_Witness ==
    /\ Succeeded("get_dashboard_stats")
    /\ Len(claims) = 2
    /\ Cardinality(WithStatus(Approved)) = 1
    /\ Cardinality(WithStatus(Rejected)) = 1
    /\ last.resp.body.statistics.approval_rate = [num |-> 100, den |-> 2]

\* The stored claims whose location.state is st.
InRegion(st) == {i \in 1..Len(claims) : claims[i].location.state = st}

\* The group of a region as the claim describes it.
RegionGroup(st) ==
    [id           |-> st,
     total_claims |-> Cardinality(InRegion(st)),
     approved     |-> Cardinality(InRegion(st) \cap WithStatus(Approved)),
     pending      |-> Cardinality(InRegion(st) \cap WithStatus(Pending)),
     rejected     |-> Cardinality(InRegion(st) \cap WithStatus(Rejected))]

\* The three claims of the example.
ExampleClaims ==
    << [location |-> Location("A"), status |-> Approved],
       [location |-> Location("A"), status |-> Pending],
       [location |-> Location("B"), status |-> Rejected] >>

\* Their regional summary.
ExampleSummary == aggregate(ExampleClaims)

\* C15: the regional summary holds exactly one group for every value of
\* location.state among the stored claims, the absent state included, and
\* no other group; a group's total is the number of claims of that state
\* and its approved, pending and rejected counts are the numbers of those
\* claims with that status.  Over the claims (A, approved), (A, pending),
\* (B, rejected) the groups are A: 2, 1, 1, 0 and B: 1, 0, 0, 1.
C15_RegionalSummary ==
    /\ Succeeded("get_summary_report") =>
          LET data == last.resp.body.data IN
          /\ \A i \in 1..Len(claims) :
                /\ Cardinality({g \in data : g.id = claims[i].location.state}) = 1
                /\ RegionGroup(claims[i].location.state) \in data
          /\ \A g \in data : InRegion(g.id) # {}
    /\ ExampleSummary =
          { [id |-> "A", total_claims |-> 2, approved |-> 1, pending |-> 1, rejected |-> 0],
            [id |-> "B", total_claims |-> 1, approved |-> 0, pending |-> 0, rejected |-> 1] }

\* The summary of an approved claim in state A and a claim under review
\* that names no state has been served: two groups, one of them the group
\* of the absent state, whose three counts are all 0.
C15_Witness ==
    /\ Succeeded("get_summary_report")
    /\ Len(claims) = 2
    /\ Cardinality(last.resp.body.data) = 2
    /\ [id |-> "A", total_claims |-> 1, approved |-> 1, pending |-> 0, rejected |-> 0]
           \in last.resp.body.data
    /\ [id |-> None, total_claims |-> 1, approved |-> 0, pending |-> 0, rejected |-> 0]
           \in last.resp.body.data

\* C16: an authenticated dashboard statistics request is answered 200 with
\* the counts of the store whether the insights call succeeds or fails; when
\* it fails the response carries the failure note with the time it was
\* generated at; the store is left as it is.
C16_DashboardDegrades ==
    [][ \A tok \in UserTokens :
          (last'.op = "get_dashboard_stats" /\ last'.tok = tok)
          => \A ai \in AnalyzerOutcomes :
               get_dashboard_stats(tok, ai)
          => /\ last'.resp.code = 200
             /\ last'.resp.body.statistics.total_claims = Len(claims)
             /\ last'.resp.body.statistics.approved_claims = Cardinality(WithStatus(Approved))
             /\ last'.resp.body.statistics.pending_claims = Cardinality(WithStatus(Pending))
             /\ last'.resp.body.statistics.rejected_claims = Cardinality(WithStatus(Rejected))
             /\ last'.resp.body.ai_insights.generated_at \in utcnow(clock)
             /\ ai = "error" <=>
                  last'.resp.body.ai_insights.ai_insights = "Insights generation failed"
             /\ claims' = claims /\ users' = users /\ files' = files ]_vars

\* The statistics of a store with an approved and a pending claim have been
\* served with the failure note in place of the insights.
C16_Witness ==
    /\ Succeeded("get_dashboard_stats")
    /\ last.resp.body.statistics.total_claims = 2
    /\ last.resp.body.statistics.approved_claims = 1
    /\ last.resp.body.statistics.pending_claims = 1
    /\ last.resp.body.ai_insights.ai_insights = "Insights generation failed"

\* C17: a status update by a District Officer or Ministry user that names
\* a claim id not in the store is answered 404 "Claim not found"; no claim
\* is created and every stored claim stays as it is.
C17_UpdateNotFound ==
    [][ (/\ last'.op = "update_claim_status"
         /\ IsOfficer(last'.tok)
         /\ ~Exists(last'.cid))
        => /\ last'.resp.code = 404
           /\ last'.resp.detail = "Claim not found"
           /\ claims' = claims ]_vars

\* A Ministry user has been answered 404 for an id that is not in the
\* store, which holds a claim.
C17_Witness ==
    /\ last.op = "update_claim_status"
    /\ CallerRole = Ministry
    /\ ~Exists(last.cid)
    /\ Len(claims) = 1
    /\ last.resp.code = 404

\* Two different coroutines have both answered an authorized status update
\* of the same stored claim.
BothUpdated(r1, r2) ==
    /\ r1 # r2
    /\ \A r \in {r1, r2} :
          /\ tasks[r].phase = "done"
          /\ tasks[r].route = "update_claim_status"
          /\ IsOfficer(tasks[r].tok)
          /\ Exists(tasks[r].cid)
    /\ tasks[r1].cid = tasks[r2].cid

\* The claim holds the status, reviewer and notes of the request of r.
HoldsReviewOf(r) ==
    /\ claims[tasks[r].cid].status = tasks[r].data.status
    /\ claims[tasks[r].cid].reviewed_by = tasks[r].data.reviewed_by
    /\ claims[tasks[r].cid].officer_notes = tasks[r].data.officer_notes

\* The last writer wins: once only these two requests have written, the
\* claim holds the review of one of them, no mixture of the two.
NoMixture ==
    \A r1, r2 \in RequestIds :
        (BothUpdated(r1, r2) /\ \A r \in RequestIds \ {r1, r2} : tasks[r].phase = "idle")
        => HoldsReviewOf(r1) \/ HoldsReviewOf(r2)

\* C18: when two authorized status updates of the same claim run
\* concurrently, both are answered 200 and the claim ends with the status,
\* reviewed_by and officer_notes of one of the two requests, never a mixture
\* of the two.
C18_LastWriterWins ==
    /\ NoMixture
    /\ \A r1, r2 \in RequestIds :
          BothUpdated(r1, r2) => tasks[r1].resp.code = 200 /\ tasks[r2].resp.code = 200

\* C19: no two stored users have the same email, whatever the order and the
\* interleaving of the registration requests, and a registration for an
\* email that is stored is answered 400 and adds no user.
C19_UniqueEmail ==
    [][ /\ \A i, j \in 1..Len(users') : users'[i].email = users'[j].email => i = j
        /\ \A r \in RequestIds :
              (/\ tasks[r].phase = "idle"
               /\ tasks'[r].route = "register_user"
               /\ EmailRegistered(tasks'[r].data.email))
              => /\ tasks'[r].phase = "done"
                 /\ tasks'[r].resp.code = 400
                 /\ users' = users ]_vars

\* C20: the role of every stored user is one of the four roles Community
\* User, NGO, District Officer and Ministry.
C20_RoleInEnum ==
    \A i \in 1..Len(users) : users[i].role \in Roles

\* C22: a status update by a District Officer or Ministry user of a claim
\* that is stored is never answered 404, also when it repeats the status,
\* notes and reviewer the claim holds and the write leaves the document as
\* it was.
C22_ExistingNeverNotFound ==
    [][ (/\ last'.op = "update_claim_status"
         /\ IsOfficer(last'.tok)
         /\ Exists(last'.cid))
        => last'.resp.code # 404 ]_vars

\* The ids of the claims a successful read of the claim list, of one claim
\* or of the map data shows to its caller.
ShownIds ==
    CASE last.op = "get_claims"   -> {last.resp.body[k].id : k \in 1..Len(last.resp.body)}
      [] last.op = "get_claim"    -> {last.resp.body.id}
      [] last.op = "get_map_data" -> {last.resp.body[k].id : k \in 1..Len(last.resp.body)}

\* C24: a response to a Community User from the claim list, the single
\* claim or the map data shows no claim (its id, status or location) that
\* the user does not own.
C24_NoForeignClaims ==
    (/\ last.op \in {"get_claims", "get_claim", "get_map_data"}
     /\ last.resp.code = 200
     /\ CallerRole = CommunityUser)
    => \A id \in ShownIds : claims[id].user_id = Caller

\* The coroutines that have answered 200 to an upload to claim cid.
UploadsAnswered(cid) ==
    {r \in RequestIds : /\ tasks[r].phase = "done"
                        /\ tasks[r].route = "upload_document"
                        /\ tasks[r].cid = cid
                        /\ tasks[r].resp.code = 200}

\* Status, reviewer and notes of a claim document or of an update_dict.
Review(c) == <<c.status, c.reviewed_by, c.officer_notes>>

\* Coroutine r writes its status update in this step.
WritesReview(r) ==
    /\ tasks[r].route = "update_claim_status"
    /\ tasks[r].phase = "built"
    /\ tasks'[r].phase = "done"

\* C21: when uploads to a claim and status updates of it interleave at
\* their awaits, no append is lost and no status change is undone: after
\* every step the documents of the claim, empty at creation, are as many
\* as the uploads answered so far and hold the path of each, the write of
\* a status update leaves its status, reviewer and notes in the claim, and
\* no other step changes these three.
C21_NoLostAppend ==
    [][ /\ \A cid \in 1..Len(claims') :
              /\ Len(claims'[cid].documents) = Cardinality(UploadsAnswered(cid)')
              /\ \A r \in UploadsAnswered(cid)' :
                    \E k \in 1..Len(claims'[cid].documents) :
                        claims'[cid].documents[k] = tasks'[r].data.file_path
        /\ \A r \in RequestIds :
              (WritesReview(r) /\ Exists(tasks[r].cid))
              => Review(claims'[tasks[r].cid]) = Review(tasks[r].data)
        /\ \A cid \in 1..Len(claims) :
              (\A r \in RequestIds : ~(WritesReview(r) /\ tasks[r].cid = cid))
              => Review(claims'[cid]) = Review(claims[cid]) ]_vars

\* Two uploads and a status update of one claim have all been answered:
\* the update took its timestamp before an upload was pushed and was
\* written after it, and the claim holds both documents and the review.
C21_Witness ==
    /\ \A r \in RequestIds : tasks[r].phase = "done"
    /\ Cardinality(UploadsAnswered(1)) = 2
    /\ Len(claims[1].documents) = 2
    /\ claims[1].documents[1] # claims[1].documents[2]
    /\ last.op = "update_claim_status"
    /\ last.resp.code = 200
    /\ claims[1].status = Approved
    /\ claims[1].updated_at = 0
    /\ clock = 1

\* C25: an upload never overwrites what an earlier upload stored: no step
\* changes the bytes at a path that the documents of a claim hold, and the
\* analysis an upload leaves in the claim is the analyzer's outcome on the
\* bytes of that upload.
C25_NoOverwrite ==
    [][ /\ \A cid \in 1..Len(claims) :
              \A k \in 1..Len(claims[cid].documents) :
                  files'[claims[cid].documents[k]] = files[claims[cid].documents[k]]
        /\ \A r \in RequestIds :
              (/\ tasks[r].route = "upload_document"
               /\ tasks[r].phase = "analyzed"
               /\ tasks'[r].phase = "done")
              => claims'[tasks[r].cid].ai_analysis \in
                     {analyze_document_with_ai(tasks[r].data.content, ai) :
                          ai \in AnalyzerOutcomes} ]_vars

\* C23: the statistics of a dashboard response fit one state of the claim
\* store, also when claims are created and reviewed while the request
\* runs: approved_claims + pending_claims + rejected_claims <= total_claims
\* and the approval rate is at most 100.
C23_StatsOfOneState ==
    Succeeded("get_dashboard_stats") =>
        LET st == last.resp.body.statistics IN
        /\ st.approved_claims + st.pending_claims + st.rejected_claims <= st.total_claims
        /\ st.approval_rate.num <= 100 * st.approval_rate.den

====
